---- MODULE Spec2Model ----
(***************************************************************************)
(* Model of essmc2/utils/registry.py: the Registry class (two key-to-entity *)
(* maps, an allow-list and a builder) and the default builder               *)
(* build_from_config.                                                       *)
(*                                                                          *)
(* Python values are modelled as strings: the members of Classes are class  *)
(* objects, the members of Functions are function objects, the members of   *)
(* Strings are str values, Ints are int values, ListAddrs/DictAddrs are the *)
(* identities (addresses) of list and dict objects, None is None.           *)
(***************************************************************************)
EXTENDS Naturals, Sequences, FiniteSets, TLC

VARIABLES registries,     \* the constructed Registry objects, by identity
          REGISTRY_LIST,  \* the class attribute Registry.REGISTRY_LIST
          op,             \* the most recent call: which operation, "idle" between calls
          args,           \* the most recent call: its arguments
          raised,         \* the most recent call: the exception it ended in, or NoExc
          warned,         \* the most recent call: whether it called warnings.warn
          ret,            \* the most recent call: the value it returned, or None
          calls,          \* the most recent call: the invocations of entities it made
          heap            \* the most recent call: the caller's objects after it

vars == <<registries, REGISTRY_LIST, op, args, raised, warned, ret, calls, heap>>

----------------------------------------------------------------------------
(* The universe of Python values the operations are exercised with.        *)

None == "None"

\* Classes. ClsFalsy is a class whose metaclass defines __bool__ (or __len__)
\* so that bool(ClsFalsy) is False.
Classes == {"ClsA", "ClsB", "ClsFalsy"}

\* Functions created by def or lambda (inspect.isfunction is true of them).
Functions == {"FnA", "FnB", "Lam"}

\* Values that are neither classes nor functions: a builtin (it has a
\* __name__) and an int (it has none).
Others == {"Builtin", "Int5"}

Entities == Classes \cup Functions

\* str values: registration keys and explicit names.
Keys == {"a", "b", "<lambda>"}
Strings == Keys \cup {"", "zz"}

\* The value of the name argument of the registration operations.
NameArgs == {None, "", "a", "b"}

\* Registry names and allow_types values.
RegistryNames == {"MODELS"}
AllowTypes == SUBSET {"class", "function"}

\* Identities of Registry objects, in the order they can be constructed.
RegIds == {"r1"}

\* The identities of the Registry objects of a program that makes two.
TwoRegIds == {"r1", "r2"}

\* The most entries the two maps of all registries hold together.
MaxEntries == 2

\* x.__name__ ; HasName is hasattr(x, "__name__").
HasName(x) == x \in Entities \cup {"Builtin"}
NameOf(x) ==
    CASE x \in {"ClsA", "ClsFalsy", "FnA"} -> "a"
      [] x \in {"ClsB", "FnB"} -> "b"
      [] x = "Lam" -> "<lambda>"
      [] x = "Builtin" -> "len"

isclass(x) == x \in Classes
isfunction(x) == x \in Functions
isstr(x) == x \in Strings

\* bool(x) for the values the code tests with `or`.
Truthy(x) == x \notin {None, "", "ClsFalsy"}

\* Python's `x or y`.
Or(x, y) == IF Truthy(x) THEN x ELSE y

----------------------------------------------------------------------------
(* Mappings (dict / OrderedDict contents): functions from a set of keys.   *)

EmptyMap == [k \in {} |-> None]

\* m[k] = v
Put(m, k, v) == [x \in (DOMAIN m) \cup {k} |-> IF x = k THEN v ELSE m[x]]

\* m.get(k)
MapGet(m, k) == IF k \in DOMAIN m THEN m[k] ELSE None

\* m without key k (the mapping left by m.pop(k))
Without(m, k) == [x \in (DOMAIN m) \ {k} |-> m[x]]

\* m.update(n)
Update(m, n) ==
    [x \in (DOMAIN m) \cup (DOMAIN n) |-> IF x \in DOMAIN n THEN n[x] ELSE m[x]]

----------------------------------------------------------------------------
(* Exceptions.                                                              *)

NoExc == [type |-> "none", names |-> {}, cause |-> "none"]

\* An exception of class `type` whose message interpolates the values `names`.
Exc(type, names) == [type |-> type, names |-> names, cause |-> "none"]

\* The classes of exception that `except Exception` catches.
ExceptionClasses == {"Exception", "TypeError", "KeyError", "ValueError", "AttributeError"}

----------------------------------------------------------------------------
(* Registry: construction, lookup.                                          *)

\* Registry.__init__: the new object (REGISTRY_LIST is appended by the action).
NewRegistry(name, build_func, allow_types) ==
    [name |-> name,
     allow_types |-> allow_types,
     class_map |-> EmptyMap,
     func_map |-> EmptyMap,
     build_func |-> Or(build_func, "build_from_config")]

\* Registry.get
get(self, req_type) ==
    Or(MapGet(self.class_map, req_type), MapGet(self.func_map, req_type))

\* Registry.contains
contains(self, req_type) ==
    req_type \in DOMAIN self.class_map \/ req_type \in DOMAIN self.func_map

----------------------------------------------------------------------------
(* Registration. Each operation is a function of the registry object and   *)
(* the arguments to: the registry object afterwards, the exception raised, *)
(* the value returned, and whether warnings.warn was called.               *)

Outcome(self, exc, value, warn) ==
    [registry |-> self, raised |-> exc, ret |-> value, warned |-> warn]

\* An allow-list test that lets every kind pass.
AllowedAlways(self, kind) == TRUE

\* The allow-list test: `kind in self.allow_types`.
Allowed(self, kind) == kind \in self.allow_types

\* A registration that keeps the entry a key already has.
ClassEntryKeepFirst(class_map, module_name, cls) ==
    IF module_name \in DOMAIN class_map THEN class_map ELSE Put(class_map, module_name, cls)

\* class_map after self.class_map[module_name] = cls.
ClassEntry(class_map, module_name, cls) == Put(class_map, module_name, cls)

\* Registry.register_class(name)(cls)
register_class(self, name, cls) ==
    IF ~isclass(cls)
    THEN Outcome(self, Exc("TypeError", {}), None, FALSE)
    ELSE IF ~Allowed(self, "class")
    THEN Outcome(self, Exc("TypeError", {self.name} \cup self.allow_types), None, FALSE)
    ELSE LET module_name == Or(name, NameOf(cls))
         IN Outcome([self EXCEPT !.class_map = ClassEntry(@, module_name, cls)],
                    NoExc, cls, module_name \in DOMAIN self.class_map)

\* A registration that replaces the whole map by the new entry.
FuncEntryOnly(func_map, func_name, func) == [x \in {func_name} |-> func]

\* func_map after self.func_map[func_name] = func.
FuncEntry(func_map, func_name, func) == Put(func_map, func_name, func)

\* A register_function that stores the function before it tests the
\* allow-list.
register_function_store_first(self, name, func) ==
    IF ~isfunction(func)
    THEN Outcome(self, Exc("TypeError", {}), None, FALSE)
    ELSE LET func_name == Or(name, NameOf(func))
             stored == [self EXCEPT !.func_map = FuncEntry(@, func_name, func)]
         IN IF ~Allowed(self, "function")
            THEN Outcome(stored, Exc("TypeError", {self.name} \cup self.allow_types), None, FALSE)
            ELSE Outcome(stored, NoExc, func, func_name \in DOMAIN self.func_map)

\* Registry.register_function(name)(func)
register_function(self, name, func) ==
    IF ~isfunction(func)
    THEN Outcome(self, Exc("TypeError", {}), None, FALSE)
    ELSE IF ~Allowed(self, "function")
    THEN Outcome(self, Exc("TypeError", {self.name} \cup self.allow_types), None, FALSE)
    ELSE LET func_name == Or(name, NameOf(func))
         IN Outcome([self EXCEPT !.func_map = FuncEntry(@, func_name, func)],
                    NoExc, func, func_name \in DOMAIN self.func_map)

\* The lambda test of register_by_hand: an anonymous function given no name.
UnnamedLambda(instance, name) ==
    isfunction(instance) /\ NameOf(instance) = "<lambda>" /\ name = None

\* A register_by_hand without the last branch: what is not a function is
\* stored as a class.
register_by_hand_any_kind(self, instance, name) ==
    IF UnnamedLambda(instance, name)
    THEN Outcome(self, Exc("ValueError", {}), None, FALSE)
    ELSE IF ~Truthy(name) /\ ~HasName(instance)
    THEN Outcome(self, Exc("AttributeError", {}), None, FALSE)
    ELSE LET key == Or(name, NameOf(instance))
         IN IF isfunction(instance)
            THEN IF ~Allowed(self, "function")
                 THEN Outcome(self, Exc("TypeError", {key} \cup self.allow_types), None, FALSE)
                 ELSE Outcome([self EXCEPT !.func_map = FuncEntry(@, key, instance)],
                              NoExc, None, key \in DOMAIN self.func_map)
            ELSE IF ~Allowed(self, "class")
            THEN Outcome(self, Exc("TypeError", {key} \cup self.allow_types), None, FALSE)
            ELSE Outcome([self EXCEPT !.class_map = ClassEntry(@, key, instance)],
                         NoExc, None, key \in DOMAIN self.class_map)

\* Registry.register_by_hand(instance, name)
register_by_hand(self, instance, name) ==
    IF UnnamedLambda(instance, name)
    THEN Outcome(self, Exc("ValueError", {}), None, FALSE)
    ELSE IF ~Truthy(name) /\ ~HasName(instance)
    THEN Outcome(self, Exc("AttributeError", {}), None, FALSE)
    ELSE LET key == Or(name, NameOf(instance))
         IN IF isfunction(instance)
            THEN IF ~Allowed(self, "function")
                 THEN Outcome(self, Exc("TypeError", {key} \cup self.allow_types), None, FALSE)
                 ELSE Outcome([self EXCEPT !.func_map = FuncEntry(@, key, instance)],
                              NoExc, None, key \in DOMAIN self.func_map)
            ELSE IF isclass(instance)
            THEN IF ~Allowed(self, "class")
                 THEN Outcome(self, Exc("TypeError", {key} \cup self.allow_types), None, FALSE)
                 ELSE Outcome([self EXCEPT !.class_map = ClassEntry(@, key, instance)],
                              NoExc, None, key \in DOMAIN self.class_map)
            ELSE Outcome(self, Exc("TypeError", {}), None, FALSE)

----------------------------------------------------------------------------
(* The objects of a caller of the builder: the heap maps the identity of   *)
(* each dict to its contents and the identity of each list to its items.   *)
(* D0 is the caller's config dict; L1 and L2 are lists the caller holds.   *)

Ints == {"1", "2"}
ListAddrs == {"L1", "L2"}
DictAddrs == {"D0"}

\* The values a config holds under "type".
TypeValues == {"a", "b", "zz", "ClsA", "ClsFalsy", "FnA", "Int5"}

\* The contents of the caller's config dict.
ConfigContents ==
    { m \in UNION { [S -> TypeValues \cup {"1", "L1"}] : S \in SUBSET {"type", "a"} } :
        /\ ("type" \in DOMAIN m => m["type"] \in TypeValues)
        /\ ("a" \in DOMAIN m => m["a"] \in {"1", "L1"}) }

\* The keyword overrides of a build call.
KwargsSet ==
    { EmptyMap,
      [k \in {"a"} |-> "2"],
      [k \in {"a"} |-> "L1"],
      [k \in {"b"} |-> "L2"],
      [k \in {"a", "b"} |-> IF k = "a" THEN "2" ELSE "L2"],
      [k \in {"type"} |-> "zz"] }

\* The calls' cfg argument and the contents of the caller's config dict D0:
\* the dict itself with any contents, or a list (not a mapping).
CfgArgs ==
    {<<"D0", content>> : content \in ConfigContents}
    \cup {<<"L1", [k \in {"type"} |-> "a"]>>}

\* The values passed as registry that are not Registry instances.
NotRegistries == {None, "Int5"}

CallerHeap(content) ==
    [dicts |-> [d \in {"D0"} |-> content],
     lists |-> [l \in ListAddrs |-> <<>>]]

EmptyHeap == [dicts |-> EmptyMap, lists |-> EmptyMap]

\* The identity of the copy copy.deepcopy makes of a value: lists are
\* copied, ints, strings, classes and functions are returned as they are.
CopyAddr(v) ==
    CASE v = "L1" -> "L1c"
      [] v = "L2" -> "L2c"
      [] OTHER -> v

\* copy.copy(cfg): a new dict that holds the same objects.
shallowcopy(h, d) ==
    [heap |-> [h EXCEPT !.dicts = Put(@, "D1", h.dicts[d])], addr |-> "D1"]

\* copy.deepcopy(cfg): the heap with the copy in it, and the copy's identity.
deepcopy(h, d) ==
    LET old == h.dicts[d]
        copied == {old[k] : k \in DOMAIN old} \cap ListAddrs
    IN [heap |-> [dicts |-> Put(h.dicts, "D1", [k \in DOMAIN old |-> CopyAddr(old[k])]),
                  lists |-> [l \in (DOMAIN h.lists) \cup {CopyAddr(x) : x \in copied} |->
                               IF l \in DOMAIN h.lists THEN h.lists[l]
                               ELSE h.lists[CHOOSE x \in copied : CopyAddr(x) = l]]],
        addr |-> "D1"]

----------------------------------------------------------------------------
(* The registered entities when called: signature and body.                *)

\* Keyword names the entity's signature accepts; VarKw: it declares **kwargs.
VarKw(e) == e = "FnA"
Accepts(e) == IF e = "Lam" THEN {"a"} ELSE {"a", "b"}
Required(e) == IF e = "ClsA" THEN {"a"} ELSE {}

\* What the body does: keep its arguments, append to each list it received,
\* raise ValueError, or raise SystemExit (not an Exception subclass).
Body(e) ==
    CASE e \in {"ClsA", "Lam"} -> "store"
      [] e \in {"ClsFalsy", "FnA"} -> "mutate"
      [] e = "ClsB" -> "ValueError"
      [] e = "FnB" -> "SystemExit"

NoValue == [kind |-> "None", of |-> None, attrs |-> EmptyMap]
Value(v) == IF v = None THEN NoValue ELSE [kind |-> "value", of |-> v, attrs |-> EmptyMap]

\* lists after v.append("x") for the argument under key k, if it is a list.
AppendTo(lists, kw, k) ==
    IF k \in DOMAIN kw /\ kw[k] \in DOMAIN lists
    THEN [lists EXCEPT ![kw[k]] = Append(@, "x")]
    ELSE lists

\* e(**kw): the exception raised or NoExc, the value returned, the lists after.
Invoke(e, kw, lists) ==
    IF (~VarKw(e) /\ ~(DOMAIN kw \subseteq Accepts(e))) \/ ~(Required(e) \subseteq DOMAIN kw)
    THEN [raised |-> Exc("TypeError", {}), ret |-> NoValue, lists |-> lists]
    ELSE CASE Body(e) = "store" ->
                [raised |-> NoExc,
                 ret |-> [kind |-> IF isclass(e) THEN "instance" ELSE "result", of |-> e, attrs |-> kw],
                 lists |-> lists]
           [] Body(e) = "mutate" ->
                [raised |-> NoExc,
                 ret |-> [kind |-> IF isclass(e) THEN "instance" ELSE "result", of |-> e, attrs |-> kw],
                 lists |-> AppendTo(AppendTo(lists, kw, "a"), kw, "b")]
           [] OTHER ->
                [raised |-> Exc(Body(e), {}), ret |-> NoValue, lists |-> lists]

----------------------------------------------------------------------------
(* The default builder.                                                     *)

BuildOutcome(exc, value, invoked, h, regs) ==
    [raised |-> exc, ret |-> value, calls |-> invoked, heap |-> h, registries |-> regs]

\* An except clause that drops the exception.
WrapSwallow(entity, e) == NoExc

\* The except clauses of build_from_config: an Exception raised by the entity
\* is replaced by an Exception naming the entity with the original's text;
\* any other BaseException propagates as it is.
Wrap(entity, e) ==
    IF e.type \in ExceptionClasses
    THEN [type |-> "Exception", names |-> {entity}, cause |-> e.type]
    ELSE e

\* A last step that takes classes only, as its error message has it
\* ("type must be str or class").
CallEntryClassOnly(req_type_entry, kw, h, regs) ==
    IF isclass(req_type_entry)
    THEN LET r == Invoke(req_type_entry, kw, h.lists)
             h2 == [h EXCEPT !.lists = r.lists]
             invoked == <<[entity |-> req_type_entry, kwargs |-> kw]>>
         IN IF r.raised = NoExc
            THEN BuildOutcome(NoExc, r.ret, invoked, h2, regs)
            ELSE BuildOutcome(Wrap(req_type_entry, r.raised), NoValue, invoked, h2, regs)
    ELSE BuildOutcome(Exc("TypeError", {}), NoValue, <<>>, h, regs)

\* Steps 5-7 of build_from_config: the call of the resolved entry.
CallEntry(req_type_entry, kw, h, regs) ==
    IF isclass(req_type_entry) \/ isfunction(req_type_entry)
    THEN LET r == Invoke(req_type_entry, kw, h.lists)
             h2 == [h EXCEPT !.lists = r.lists]
             invoked == <<[entity |-> req_type_entry, kwargs |-> kw]>>
         IN IF r.raised = NoExc
            THEN BuildOutcome(NoExc, r.ret, invoked, h2, regs)
            ELSE BuildOutcome(Wrap(req_type_entry, r.raised), NoValue, invoked, h2, regs)
    ELSE BuildOutcome(Exc("TypeError", {}), NoValue, <<>>, h, regs)

\* A merge in which the config's own entries win over the overrides.
UpdateDictKeepConfig(h, d, kwargs) == [h EXCEPT !.dicts[d] = Update(kwargs, @)]

\* cfg.update(kwargs) on the dict object d.
UpdateDict(h, d, kwargs) == [h EXCEPT !.dicts[d] = Update(@, kwargs)]

\* The argument checks with the registry check moved to the front.
ValidateArgsRegistryFirst(cfg, registry, h, regs) ==
    IF registry \notin DOMAIN regs
    THEN Exc("TypeError", {})
    ELSE IF cfg \notin DOMAIN h.dicts
    THEN Exc("TypeError", {})
    ELSE IF "type" \notin DOMAIN h.dicts[cfg]
    THEN Exc("KeyError", {})
    ELSE NoExc

\* The three argument checks that open build_from_config: the exception of
\* the first one that fails, or NoExc.
ValidateArgs(cfg, registry, h, regs) ==
    IF cfg \notin DOMAIN h.dicts
    THEN Exc("TypeError", {})
    ELSE IF "type" \notin DOMAIN h.dicts[cfg]
    THEN Exc("KeyError", {})
    ELSE IF registry \notin DOMAIN regs
    THEN Exc("TypeError", {})
    ELSE NoExc

\* A lookup that removes what it finds (pop in place of get).
ResolvePop(regs, registry, req_type) ==
    [entry |-> get(regs[registry], req_type),
     registries |-> [regs EXCEPT ![registry].class_map = Without(@, req_type),
                                 ![registry].func_map = Without(@, req_type)]]

\* registry.get(req_type) as build_from_config calls it: the entry found and
\* the Registry objects after the call.
Resolve(regs, registry, req_type) ==
    [entry |-> get(regs[registry], req_type), registries |-> regs]

\* A KeyError that names the type string alone.
NotFoundErrorNoRegistry(req_type, self) == Exc("KeyError", {req_type})

\* The KeyError of an unresolved type string.
NotFoundError(req_type, self) == Exc("KeyError", {req_type, self.name})

\* build_from_config(cfg, registry, **kwargs) called with heap h and the
\* Registry objects regs: what it raises or returns, the entities it invoked,
\* and the heap and the Registry objects when it ends.
build_from_config(cfg, registry, kwargs, h, regs) ==
    IF ValidateArgs(cfg, registry, h, regs) # NoExc
    THEN BuildOutcome(ValidateArgs(cfg, registry, h, regs), NoValue, <<>>, h, regs)
    ELSE LET c == deepcopy(h, cfg)
             req_type == c.heap.dicts[c.addr]["type"]
             h1 == [c.heap EXCEPT !.dicts[c.addr] = Without(@, "type")]
             found == IF isstr(req_type) THEN Resolve(regs, registry, req_type)
                      ELSE [entry |-> req_type, registries |-> regs]
         IN IF isstr(req_type) /\ found.entry = None
            THEN BuildOutcome(NotFoundError(req_type, regs[registry]),
                              NoValue, <<>>, h1, found.registries)
            ELSE LET h2 == UpdateDict(h1, c.addr, kwargs)
                 IN CallEntry(found.entry, h2.dicts[c.addr], h2, found.registries)

\* Registry.build(cfg, **kwargs) of the registry with identity self.
build(self, cfg, kwargs, h, regs) ==
    build_from_config(cfg, self, kwargs, h, regs)

----------------------------------------------------------------------------
(* The signatures and docstrings that the introspector reads.               *)

\* inspect.Parameter.empty: no default, no annotation.
Empty == "<empty>"

Param(name, kind, default, annotation) ==
    [name |-> name, kind |-> kind, default |-> default, annotation |-> annotation]

Self == Param("self", "POSITIONAL_OR_KEYWORD", Empty, Empty)

\* Classes that are only introspected: two more subclasses of ClsA, and the
\* root of every __mro__.
AllClasses == Classes \cup {"ClsC", "ClsD", "object"}

\* cls.__mro__
Mro(cls) ==
    CASE cls = "ClsA" -> <<"ClsA", "object">>
      [] cls = "ClsB" -> <<"ClsB", "ClsA", "object">>
      [] cls = "ClsC" -> <<"ClsC", "ClsA", "object">>
      [] cls = "ClsD" -> <<"ClsD", "ClsA", "object">>
      [] cls = "ClsFalsy" -> <<"ClsFalsy", "object">>
      [] cls = "object" -> <<"object">>

\* The class body defines __init__ (ClsD inherits the one of ClsA).
HasOwnInit(cls) == cls # "ClsD"

\* The signature of the __init__ the class body defines:
\*   ClsA(self, a: int, b="1")         ClsB(self, a="2", b="2", *args)
\*   ClsC(self, b: Tensor)             ClsFalsy(self, a=None, b=None)
\*   object(self, /, *args, **kwargs)
OwnInit(cls) ==
    CASE cls = "ClsA" ->
            <<Self, Param("a", "POSITIONAL_OR_KEYWORD", Empty, "int"),
              Param("b", "POSITIONAL_OR_KEYWORD", "1", Empty)>>
      [] cls = "ClsB" ->
            <<Self, Param("a", "POSITIONAL_OR_KEYWORD", "2", Empty),
              Param("b", "POSITIONAL_OR_KEYWORD", "2", Empty),
              Param("args", "VAR_POSITIONAL", Empty, Empty)>>
      [] cls = "ClsC" ->
            <<Self, Param("b", "POSITIONAL_OR_KEYWORD", Empty, "Tensor")>>
      [] cls = "ClsFalsy" ->
            <<Self, Param("a", "POSITIONAL_OR_KEYWORD", None, Empty),
              Param("b", "POSITIONAL_OR_KEYWORD", None, Empty)>>
      [] cls = "object" ->
            <<Param("self", "POSITIONAL_ONLY", Empty, Empty),
              Param("args", "VAR_POSITIONAL", Empty, Empty),
              Param("kwargs", "VAR_KEYWORD", Empty, Empty)>>
      [] OTHER -> <<>>

\* The first class of the __mro__ whose body defines __init__: where the
\* attribute lookup type_c.__init__ ends.
InitOwner(type_c) ==
    LET mro == Mro(type_c)
        i == CHOOSE i \in 1..Len(mro) :
                 /\ HasOwnInit(mro[i])
                 /\ \A j \in 1..(i - 1) : ~HasOwnInit(mro[j])
    IN mro[i]

\* inspect.signature(type_c.__init__).parameters
InitSignature(type_c) == OwnInit(InitOwner(type_c))

\* inspect.signature(func).parameters:
\*   FnA(*args, **kwargs)    FnB(a="1", *, b="2")    Lam = lambda a=None: ...
Signature(func) ==
    CASE func = "FnA" ->
            <<Param("args", "VAR_POSITIONAL", Empty, Empty),
              Param("kwargs", "VAR_KEYWORD", Empty, Empty)>>
      [] func = "FnB" ->
            <<Param("a", "POSITIONAL_OR_KEYWORD", "1", Empty),
              Param("b", "KEYWORD_ONLY", "2", Empty)>>
      [] func = "Lam" ->
            <<Param("a", "POSITIONAL_OR_KEYWORD", None, Empty)>>

\* __name__ of a class, a function or an annotation.
TypeName(x) ==
    CASE x = "ClsC" -> "c"
      [] x = "ClsD" -> "d"
      [] x \in {"object", "int", "Tensor"} -> x
      [] OTHER -> NameOf(x)

\* annotation(): int() is 0, Tensor() raises (it needs arguments).
AnnotationCallable(annotation) == annotation = "int"
AnnotationCall(annotation) == IF annotation = "int" THEN "0" ELSE None

\* One parameter of a parsed docstring: its description is a sequence of
\* lines, or absent.
DocParam(arg_name, has_description, description) ==
    [arg_name |-> arg_name, has_description |-> has_description,
     description |-> description]

\* parser.parse(x.__doc__).params
DocParsed(x) ==
    CASE x = "ClsA" -> <<DocParam("a", TRUE, <<"the a">>),
                         DocParam("b", TRUE, <<"the b", "of a">>)>>
      [] x = "ClsB" -> <<DocParam("a", TRUE, <<"a of b">>),
                         DocParam("b", FALSE, <<>>)>>
      [] x = "ClsC" -> <<DocParam("b", TRUE, <<"the b", "of c">>)>>
      [] x = "FnA" -> <<DocParam("kwargs", TRUE, <<"extra">>)>>
      [] x = "FnB" -> <<DocParam("a", TRUE, <<"the a">>),
                        DocParam("b", TRUE, <<"the b">>)>>
      [] OTHER -> <<>>

----------------------------------------------------------------------------
(* The docstring extractor and the signature introspector.                  *)

\* _get_doc_params(doc_str): the described parameters of the docstring, as
\* a mapping from name to description; a later parameter of the same name
\* replaces an earlier one.
RECURSIVE _get_doc_params(_)
_get_doc_params(params) ==
    IF params = <<>> THEN EmptyMap
    ELSE LET param == params[Len(params)]
             rest == _get_doc_params(SubSeq(params, 1, Len(params) - 1))
         IN IF param.has_description
            THEN Put(rest, param.arg_name, param.description)
            ELSE rest

\* A text of several lines as one sequence of fragments.
RECURSIVE JoinLines(_)
JoinLines(lines) ==
    IF Len(lines) <= 1 THEN lines
    ELSE <<Head(lines), "\n">> \o JoinLines(Tail(lines))

\* ValueComment(value, comment); a comment is a sequence of text fragments.
ValueComment(key, value, comment) ==
    [key |-> key, value |-> value, comment |-> comment]

\* The default and the comment of one positional-or-keyword parameter, as
\* both variants compute them, for the owner named type_name and the
\* documented parameters param_doc_dict.
ParamInfo(type_name, value, param_doc_dict) ==
    LET has_default == value.default # Empty
        from_annotation ==
            ~has_default /\ value.annotation # Empty /\ AnnotationCallable(value.annotation)
        default_value ==
            IF has_default THEN value.default
            ELSE IF from_annotation THEN AnnotationCall(value.annotation)
            ELSE None
        default_doc ==
            IF has_default THEN <<>>
            ELSE <<"TODO: Complete this value for type ", type_name>>
                 \o (IF from_annotation
                     THEN <<", use default from type ", TypeName(value.annotation), "()">>
                     ELSE <<>>)
                 \o <<".">>
        doc == param_doc_dict[value.name]
    IN ValueComment(value.name, default_value,
           IF value.name \notin DOMAIN param_doc_dict THEN default_doc
           ELSE IF Len(doc) <= 1 \/ Len(default_doc) = 0
           THEN default_doc \o JoinLines(doc)
           ELSE default_doc \o <<"\n">> \o JoinLines(doc))

\* The keys of a template.
TemplateKeys(template) == {template[i].key : i \in 1..Len(template)}

\* The entry of a template under a key it holds.
TemplateEntry(template, key) ==
    template[CHOOSE i \in 1..Len(template) : template[i].key = key]

\* The inner loop of get_class_arguments: the parameters of one level
\* added to args.
RECURSIVE ClassLevel(_, _, _, _)
ClassLevel(type_c, parameters, param_doc_dict, template) ==
    IF parameters = <<>> THEN template
    ELSE LET value == Head(parameters)
         IN ClassLevel(type_c, Tail(parameters), param_doc_dict,
                IF \/ value.name = "self"
                   \/ value.kind # "POSITIONAL_OR_KEYWORD"
                   \/ value.name \in TemplateKeys(template)
                THEN template
                ELSE Append(template, ParamInfo(TypeName(type_c), value, param_doc_dict)))

\* The outer loop of get_class_arguments, over the levels of the __mro__.
RECURSIVE ClassLevels(_, _)
ClassLevels(mro, template) ==
    IF mro = <<>> THEN template
    ELSE ClassLevels(Tail(mro),
             ClassLevel(Head(mro), InitSignature(Head(mro)),
                        _get_doc_params(DocParsed(Head(mro))), template))

\* get_class_arguments(cls): the template as a sequence in insertion order.
get_class_arguments(cls) == ClassLevels(Mro(cls), <<>>)

\* The loop of get_function_arguments.
RECURSIVE FunctionParams(_, _, _, _)
FunctionParams(func, parameters, param_doc_dict, template) ==
    IF parameters = <<>> THEN template
    ELSE LET value == Head(parameters)
         IN FunctionParams(func, Tail(parameters), param_doc_dict,
                CASE value.kind = "VAR_KEYWORD" ->
                        Append(template, ValueComment(value.name, "{}", <<>>))
                  [] value.kind = "VAR_POSITIONAL" ->
                        Append(template, ValueComment(value.name, "[]", <<>>))
                  [] value.kind \notin {"VAR_KEYWORD", "VAR_POSITIONAL", "POSITIONAL_OR_KEYWORD"} ->
                        template
                  [] OTHER ->
                        Append(template, ParamInfo(TypeName(func), value, param_doc_dict)))

\* get_function_arguments(func)
get_function_arguments(func) ==
    FunctionParams(func, Signature(func), _get_doc_params(DocParsed(func)), <<>>)

Template(template) == [kind |-> "OrderedDict", of |-> None, attrs |-> template]

\* A fetch_parameters that goes through get: it takes what get returns and
\* fails when get returns nothing.
fetch_parameters_by_get(self, req_type) ==
    LET entry == get(self, req_type)
    IN IF isclass(entry)
       THEN Outcome(self, NoExc, Template(get_class_arguments(entry)), FALSE)
       ELSE IF isfunction(entry)
       THEN Outcome(self, NoExc, Template(get_function_arguments(entry)), FALSE)
       ELSE Outcome(self, Exc("ValueError", {req_type}), NoValue, FALSE)

\* Registry.fetch_parameters(req_type): the registry after the call, what it
\* raises, and the template it returns.
fetch_parameters(self, req_type) ==
    IF req_type \in DOMAIN self.class_map
    THEN Outcome(self, NoExc, Template(get_class_arguments(self.class_map[req_type])), FALSE)
    ELSE IF req_type \in DOMAIN self.func_map
    THEN Outcome(self, NoExc, Template(get_function_arguments(self.func_map[req_type])), FALSE)
    ELSE Outcome(self, Exc("ValueError", {req_type}), NoValue, FALSE)

----------------------------------------------------------------------------
(* The textual listing.                                                     *)

\* The keys of the model in the order of Python's string comparison
\* ("<" precedes the lower-case letters).
KeyOrder == <<"<lambda>", "a", "b">>

\* sorted(list(class_map.keys()) + list(func_map.keys())), for the keys of
\* KeyOrder from position i on: a key of both maps is there twice.
RECURSIVE SortedKeys(_, _)
SortedKeys(self, i) ==
    IF i > Len(KeyOrder) THEN <<>>
    ELSE (IF KeyOrder[i] \in DOMAIN self.class_map THEN <<KeyOrder[i]>> ELSE <<>>)
         \o (IF KeyOrder[i] \in DOMAIN self.func_map THEN <<KeyOrder[i]>> ELSE <<>>)
         \o SortedKeys(self, i + 1)

\* One line of the listing: f"{key}: {cls}" shows the class itself,
\* f"{key}: <function '{module}.{name}'>" the function's module and name.
ClassLine(key, cls) == [key |-> key, kind |-> "class", shown |-> <<cls>>]
FunctionLine(key, func) ==
    [key |-> key, kind |-> "function", shown |-> <<"ents", NameOf(func)>>]

\* Registry._list(): the lines that "\n".join puts together, in order.
_list(self) ==
    LET keys == SortedKeys(self, 1)
    IN [i \in 1..Len(keys) |->
           IF keys[i] \in DOMAIN self.class_map
           THEN ClassLine(keys[i], self.class_map[keys[i]])
           ELSE FunctionLine(keys[i], self.func_map[keys[i]])]

----------------------------------------------------------------------------
(* The state machine: one action per operation of the module.              *)

\* The entries of all maps of all registries.
Entries(regs) ==
    UNION { ({<<r, "class", k>> : k \in DOMAIN regs[r].class_map}
             \cup {<<r, "function", k>> : k \in DOMAIN regs[r].func_map})
            : r \in DOMAIN regs }

Init ==
    /\ registries = EmptyMap
    /\ REGISTRY_LIST = <<>>
    /\ op = "idle"
    /\ args = EmptyMap
    /\ raised = NoExc
    /\ warned = FALSE
    /\ ret = NoValue
    /\ calls = <<>>
    /\ heap = EmptyHeap

\* The state after Registry(name, build_func, allow_types) made the object id.
Constructed(id, name, build_func, allow_types) ==
    /\ registries' = Put(registries, id, NewRegistry(name, build_func, allow_types))
    /\ REGISTRY_LIST' = Append(REGISTRY_LIST, id)
    /\ op' = "Registry"
    /\ args' = [name |-> name, build_func |-> build_func, allow_types |-> allow_types]
    /\ raised' = NoExc
    /\ warned' = FALSE
    /\ ret' = Value(id)
    /\ calls' = <<>>
    /\ heap' = EmptyHeap

\* Registry(name, build_func, allow_types)
Construct ==
    /\ op = "idle"
    /\ \E id \in RegIds \ DOMAIN registries, name \in RegistryNames,
          build_func \in {None, "build_from_config"}, allow_types \in AllowTypes :
           Constructed(id, name, build_func, allow_types)

\* Registry(name, build_func, allow_types) in a program that makes two.
ConstructOfTwo ==
    /\ op = "idle"
    /\ \E id \in TwoRegIds \ DOMAIN registries, name \in RegistryNames,
          build_func \in {None, "build_from_config"}, allow_types \in AllowTypes :
           Constructed(id, name, build_func, allow_types)

\* Registries whose maps are one pair of objects shared by all instances
\* (class attributes): what one stores, all hold.
StoreRegistryShared(regs, r, self) ==
    [x \in DOMAIN regs |->
        IF x = r THEN self
        ELSE [regs[x] EXCEPT !.class_map = self.class_map, !.func_map = self.func_map]]

\* The Registry objects after a method changed the object r: each instance
\* owns the maps its constructor made, so no other object changes.
StoreRegistry(regs, r, self) == [regs EXCEPT ![r] = self]

\* The common part of the three registration actions.
Registered(opname, r, name, x, out) ==
    /\ registries' = StoreRegistry(registries, r, out.registry)
    /\ Cardinality(Entries(registries')) <= MaxEntries
    /\ op' = opname
    /\ args' = [self |-> r, name |-> name, entity |-> x]
    /\ raised' = out.raised
    /\ warned' = out.warned
    /\ ret' = Value(out.ret)
    /\ calls' = <<>>
    /\ heap' = EmptyHeap
    /\ UNCHANGED REGISTRY_LIST

\* r.register_class(name)(x)
RegisterClass ==
    /\ op = "idle"
    /\ \E r \in DOMAIN registries, name \in NameArgs, x \in Entities \cup Others :
           \E out \in {register_class(registries[r], name, x)} :
               Registered("register_class", r, name, x, out)

\* r.register_function(name)(x)
RegisterFunction ==
    /\ op = "idle"
    /\ \E r \in DOMAIN registries, name \in NameArgs, x \in Entities \cup Others :
           \E out \in {register_function(registries[r], name, x)} :
               Registered("register_function", r, name, x, out)

\* r.register_by_hand(x, name)
RegisterByHand ==
    /\ op = "idle"
    /\ \E r \in DOMAIN registries, name \in NameArgs, x \in Entities \cup Others :
           \E out \in {register_by_hand(registries[r], x, name)} :
               Registered("register_by_hand", r, name, x, out)

\* The common part of the two build actions.
Built(opname, cfg, registry, kwargs, h, out) ==
    /\ registries' = out.registries
    /\ op' = opname
    /\ args' = [cfg |-> cfg, registry |-> registry, kwargs |-> kwargs, heap |-> h]
    /\ raised' = out.raised
    /\ warned' = FALSE
    /\ ret' = out.ret
    /\ calls' = out.calls
    /\ heap' = out.heap
    /\ UNCHANGED REGISTRY_LIST

\* build_from_config(cfg, registry, **kwargs), with any value as registry
BuildFromConfig ==
    /\ op = "idle"
    /\ \E c \in CfgArgs, kwargs \in KwargsSet,
          registry \in (DOMAIN registries) \cup NotRegistries :
           \E out \in {build_from_config(c[1], registry, kwargs, CallerHeap(c[2]), registries)} :
               Built("build_from_config", c[1], registry, kwargs, CallerHeap(c[2]), out)

\* r.build(cfg, **kwargs)
RegistryBuild ==
    /\ op = "idle"
    /\ \E c \in CfgArgs, kwargs \in KwargsSet, r \in DOMAIN registries :
           \E out \in {build(r, c[1], kwargs, CallerHeap(c[2]), registries)} :
               Built("build", c[1], r, kwargs, CallerHeap(c[2]), out)

\* r.fetch_parameters(req_type)
FetchParameters ==
    /\ op = "idle"
    /\ \E r \in DOMAIN registries, req_type \in Strings :
           \E out \in {fetch_parameters(registries[r], req_type)} :
               /\ registries' = [registries EXCEPT ![r] = out.registry]
               /\ op' = "fetch_parameters"
               /\ args' = [self |-> r, req_type |-> req_type]
               /\ raised' = out.raised
               /\ warned' = FALSE
               /\ ret' = out.ret
               /\ calls' = <<>>
               /\ heap' = EmptyHeap
               /\ UNCHANGED REGISTRY_LIST

\* get_class_arguments(cls) / get_function_arguments(func), called directly
GetArguments ==
    /\ op = "idle"
    /\ \E x \in AllClasses \cup Functions :
           /\ op' = IF x \in AllClasses THEN "get_class_arguments" ELSE "get_function_arguments"
           /\ args' = [entity |-> x]
           /\ raised' = NoExc
           /\ warned' = FALSE
           /\ ret' = Template(IF x \in AllClasses THEN get_class_arguments(x)
                              ELSE get_function_arguments(x))
           /\ calls' = <<>>
           /\ heap' = EmptyHeap
           /\ UNCHANGED <<registries, REGISTRY_LIST>>

\* The caller goes on: the record of the call that ended is dropped.
Return ==
    /\ op # "idle"
    /\ op' = "idle"
    /\ args' = EmptyMap
    /\ raised' = NoExc
    /\ warned' = FALSE
    /\ ret' = NoValue
    /\ calls' = <<>>
    /\ heap' = EmptyHeap
    /\ UNCHANGED <<registries, REGISTRY_LIST>>

Next ==
    \/ Construct
    \/ RegisterClass
    \/ RegisterFunction
    \/ RegisterByHand
    \/ BuildFromConfig
    \/ RegistryBuild
    \/ FetchParameters
    \/ GetArguments
    \/ Return

Spec == Init /\ [][Next]_vars

\* A program that makes two registries and registers with both: the names
\* and the values it registers.
TwoNameArgs == {None, "a"}
TwoEntities == {"ClsA", "ClsFalsy", "FnA", "Lam", "Int5"}

\* r.register_class(name)(x), r one of the two
RegisterClassOfTwo ==
    /\ op = "idle"
    /\ \E r \in DOMAIN registries, name \in TwoNameArgs, x \in TwoEntities :
           \E out \in {register_class(registries[r], name, x)} :
               Registered("register_class", r, name, x, out)

\* r.register_function(name)(x), r one of the two
RegisterFunctionOfTwo ==
    /\ op = "idle"
    /\ \E r \in DOMAIN registries, name \in TwoNameArgs, x \in TwoEntities :
           \E out \in {register_function(registries[r], name, x)} :
               Registered("register_function", r, name, x, out)

\* r.register_by_hand(x, name), r one of the two
RegisterByHandOfTwo ==
    /\ op = "idle"
    /\ \E r \in DOMAIN registries, name \in TwoNameArgs, x \in TwoEntities :
           \E out \in {register_by_hand(registries[r], x, name)} :
               Registered("register_by_hand", r, name, x, out)

NextTwo ==
    \/ ConstructOfTwo
    \/ RegisterClassOfTwo
    \/ RegisterFunctionOfTwo
    \/ RegisterByHandOfTwo
    \/ Return

SpecTwo == Init /\ [][NextTwo]_vars

----------------------------------------------------------------------------
(* Vocabulary of the properties.                                            *)

RegOps == {"register_class", "register_function", "register_by_hand"}
BuildOps == {"build_from_config", "build"}

\* The key a registration call with these arguments stores under, None when
\* the call has no key (no name given and the value has no __name__).
KeyOf(name, x) ==
    IF Truthy(name) THEN name ELSE IF HasName(x) THEN NameOf(x) ELSE None

\* The registry the most recent registration call was made on, after the call.
CallRegistry == registries[args.self]
CallKey == KeyOf(args.name, args.entity)

\* The most recent registration call handed the registry an entity it
\* accepts: of the kind the operation takes, of a kind in allow_types, and
\* with a key.
AcceptedCall ==
    /\ op \in RegOps
    /\ \/ /\ op \in {"register_class", "register_by_hand"}
          /\ isclass(args.entity)
          /\ "class" \in CallRegistry.allow_types
       \/ /\ op \in {"register_function", "register_by_hand"}
          /\ isfunction(args.entity)
          /\ "function" \in CallRegistry.allow_types
          /\ ~(op = "register_by_hand" /\ args.entity = "Lam" /\ args.name = None)

\* Key k has an entry in class_map that `or` takes as true.
TrueClassUnder(reg, k) == k \in DOMAIN reg.class_map /\ Truthy(reg.class_map[k])

----------------------------------------------------------------------------
----------------------------------------------------------------------------
(* C2: a registration call leaves get(k2) and contains(k2) as they were    *)
(* for every key k2 other than the key it registers under, and for every   *)
(* key of every other registry.                                            *)
C2_NoCrossKeyLeakage ==
    [][op' \in RegOps =>
          \A r \in DOMAIN registries, k2 \in Strings \cup {"len"} :
              (r # args'.self \/ k2 # KeyOf(args'.name, args'.entity)) =>
                  /\ get(registries'[r], k2) = get(registries[r], k2)
                  /\ contains(registries'[r], k2) = contains(registries[r], k2)]_vars

\* C2 witness: a successful registration on a registry that holds an entry
\* under another key.
C2_Witness ==
    /\ op \in RegOps
    /\ raised = NoExc
    /\ \E k2 \in Strings : k2 # CallKey /\ contains(CallRegistry, k2)

----------------------------------------------------------------------------
(* C3 (as stated): where allow_types lacks "function", every attempt to    *)
(* register a function ends in a TypeError and func_map is empty; the same *)
(* for "class" and class_map. Refuted: register_by_hand of a lambda with   *)
(* no name ends in a ValueError, raised before allow_types is read.        *)
C3_DisallowedKindTypeError ==
    /\ \A r \in DOMAIN registries :
          /\ "function" \notin registries[r].allow_types => DOMAIN registries[r].func_map = {}
          /\ "class" \notin registries[r].allow_types => DOMAIN registries[r].class_map = {}
    /\ op \in RegOps =>
          /\ (/\ op \in {"register_function", "register_by_hand"}
              /\ isfunction(args.entity)
              /\ "function" \notin CallRegistry.allow_types) => raised.type = "TypeError"
          /\ (/\ op \in {"register_class", "register_by_hand"}
              /\ isclass(args.entity)
              /\ "class" \notin CallRegistry.allow_types) => raised.type = "TypeError"

(* C3 (amended): where allow_types lacks "function", every attempt to      *)
(* register a function ends in an error, a TypeError except for            *)
(* register_by_hand of a lambda with name None, which ends in a            *)
(* ValueError, and func_map is empty in every state; where allow_types     *)
(* lacks "class", every attempt to register a class ends in a TypeError    *)
(* and class_map is empty in every state.                                  *)
C3_DisallowedKindRejected ==
    /\ \A r \in DOMAIN registries :
          /\ "function" \notin registries[r].allow_types => DOMAIN registries[r].func_map = {}
          /\ "class" \notin registries[r].allow_types => DOMAIN registries[r].class_map = {}
    /\ op \in RegOps =>
          /\ (/\ op \in {"register_function", "register_by_hand"}
              /\ isfunction(args.entity)
              /\ "function" \notin CallRegistry.allow_types) =>
                 raised.type = IF op = "register_by_hand" /\ args.entity = "Lam"
                                  /\ args.name = None
                               THEN "ValueError" ELSE "TypeError"
          /\ (/\ op \in {"register_class", "register_by_hand"}
              /\ isclass(args.entity)
              /\ "class" \notin CallRegistry.allow_types) => raised.type = "TypeError"

\* C3 witness: register_function applied to a function on a registry whose
\* allow_types is ("class",), ended in a TypeError.
C3_Witness ==
    /\ op = "register_function"
    /\ isfunction(args.entity)
    /\ CallRegistry.allow_types = {"class"}
    /\ raised.type = "TypeError"

----------------------------------------------------------------------------
(* Vocabulary of the properties of a build call.                            *)

\* The most recent build call was given the caller's dict as cfg.
ConfigIsMapping == args.cfg \in DOMAIN args.heap.dicts

\* The contents of the caller's config dict when the call was made.
CallConfig == args.heap.dicts["D0"]

\* The most recent build call was given a Registry as registry.
RegistryIsRegistry == args.registry \in DOMAIN registries

\* What the config's type entry resolves to.
Resolved ==
    IF isstr(CallConfig["type"])
    THEN get(registries[args.registry], CallConfig["type"])
    ELSE CallConfig["type"]

\* The most recent build call passed the argument checks and resolved its
\* type to a class or a function.
BuildResolves ==
    /\ op \in BuildOps
    /\ ConfigIsMapping
    /\ "type" \in DOMAIN CallConfig
    /\ RegistryIsRegistry
    /\ Resolved \in Entities

----------------------------------------------------------------------------
(* C4: a build call with a Registry as registry ends in a TypeError when   *)
(* cfg is not a mapping, in a KeyError when the mapping has no "type", and *)
(* in a KeyError naming the registry when "type" is a string that get does *)
(* not resolve; in each case no class or function was invoked.             *)
C4_ConfigErrors ==
    (op \in BuildOps /\ RegistryIsRegistry) =>
        /\ ~ConfigIsMapping => (raised.type = "TypeError" /\ calls = <<>>)
        /\ (ConfigIsMapping /\ "type" \notin DOMAIN CallConfig) =>
               (raised.type = "KeyError" /\ calls = <<>>)
        /\ (/\ ConfigIsMapping
            /\ "type" \in DOMAIN CallConfig
            /\ isstr(CallConfig["type"])
            /\ get(registries[args.registry], CallConfig["type"]) = None) =>
               /\ raised.type = "KeyError"
               /\ registries[args.registry].name \in raised.names
               /\ calls = <<>>

\* C4 witness: a build whose type string the registry does not resolve,
\* ended in the KeyError that names the registry.
C4_Witness ==
    /\ op \in BuildOps
    /\ RegistryIsRegistry
    /\ ConfigIsMapping
    /\ "type" \in DOMAIN CallConfig
    /\ CallConfig["type"] = "zz"
    /\ raised.type = "KeyError"
    /\ registries[args.registry].name \in raised.names

----------------------------------------------------------------------------
(* C5 (as stated): build_from_config called with a registry that is not a  *)
(* Registry ends in a TypeError, whatever cfg is. Refuted: a mapping        *)
(* without "type" ends in the KeyError of the check made before.            *)
C5_NotRegistryTypeError ==
    (op = "build_from_config" /\ ~RegistryIsRegistry) => raised.type = "TypeError"

(* C5 (amended): build_from_config called with a registry that is not a    *)
(* Registry invokes nothing and ends in a TypeError when cfg is not a      *)
(* mapping or is a mapping with a "type" entry, and in a KeyError when cfg *)
(* is a mapping without "type".                                            *)
C5_NotRegistryRejected ==
    (op = "build_from_config" /\ ~RegistryIsRegistry) =>
        /\ calls = <<>>
        /\ raised.type = IF ConfigIsMapping /\ "type" \notin DOMAIN CallConfig
                         THEN "KeyError" ELSE "TypeError"

\* C5 witness: a mapping with a "type" entry and a registry that is no
\* Registry, ended in a TypeError.
C5_Witness ==
    /\ op = "build_from_config"
    /\ ~RegistryIsRegistry
    /\ ConfigIsMapping
    /\ "type" \in DOMAIN CallConfig
    /\ raised.type = "TypeError"

----------------------------------------------------------------------------
(* C6 (as stated): after every build call the caller's config dict has the *)
(* entries it had and each list nested in it has the items it had.         *)
(* Refuted: a list that the caller nests in the config and also passes as  *)
(* a keyword override reaches the entity uncopied.                         *)
C6_ConfigUnchanged ==
    (op \in BuildOps /\ ConfigIsMapping) =>
        /\ heap.dicts["D0"] = CallConfig
        /\ \A k \in DOMAIN CallConfig :
               CallConfig[k] \in ListAddrs =>
                   heap.lists[CallConfig[k]] = args.heap.lists[CallConfig[k]]

(* C6 (amended): after every build call, returned or raised, the caller's  *)
(* config dict has the entries it had (its "type" entry, none of the       *)
(* overrides), and each list nested in it that the caller did not also      *)
(* pass as a keyword override has the items it had, whatever the invoked   *)
(* entity did to its arguments.                                            *)
C6_ConfigUnchangedUnlessShared ==
    (op \in BuildOps /\ ConfigIsMapping) =>
        /\ heap.dicts["D0"] = CallConfig
        /\ \A k \in DOMAIN CallConfig :
               (/\ CallConfig[k] \in ListAddrs
                /\ \A j \in DOMAIN args.kwargs : args.kwargs[j] # CallConfig[k]) =>
                   heap.lists[CallConfig[k]] = args.heap.lists[CallConfig[k]]

\* C6 witness: the entity appended to the list it received under "a", an
\* override was merged, and the caller's list and dict are as they were.
C6_Witness ==
    /\ BuildResolves
    /\ raised = NoExc
    /\ "a" \in DOMAIN CallConfig
    /\ CallConfig["a"] = "L1"
    /\ args.kwargs # EmptyMap
    /\ heap.lists["L1c"] = <<"x">>
    /\ heap.lists["L1"] = <<>>
    /\ heap.dicts["D0"] = CallConfig

----------------------------------------------------------------------------
(* C7: a build call that resolves its type invokes the resolved class or   *)
(* function exactly once, with the config's entries other than "type"      *)
(* (lists as their copies) updated by the keyword overrides, an override   *)
(* winning over the config's entry of the same key; what is returned is    *)
(* what that invocation made of these arguments.                           *)
C7_ArgumentMerging ==
    BuildResolves =>
        /\ Len(calls) = 1
        /\ calls[1].entity = Resolved
        /\ DOMAIN calls[1].kwargs = ((DOMAIN CallConfig) \ {"type"}) \cup DOMAIN args.kwargs
        /\ \A k \in DOMAIN calls[1].kwargs :
               calls[1].kwargs[k] = IF k \in DOMAIN args.kwargs THEN args.kwargs[k]
                                    ELSE CopyAddr(CallConfig[k])
        /\ raised = NoExc => (ret.of = Resolved /\ ret.attrs = calls[1].kwargs)

\* C7 witness: the config holds a = 1, the override is a = 2, and the
\* instance returned was constructed with a = 2.
C7_Witness ==
    /\ BuildResolves
    /\ "a" \in DOMAIN CallConfig
    /\ CallConfig["a"] = "1"
    /\ "a" \in DOMAIN args.kwargs
    /\ args.kwargs["a"] = "2"
    /\ raised = NoExc
    /\ ret.kind = "instance"
    /\ ret.attrs["a"] = "2"

----------------------------------------------------------------------------
(* Vocabulary: the exception the invoked entity raised, NoExc if none.     *)
OriginalError == Invoke(calls[1].entity, calls[1].kwargs, args.heap.lists).raised

(* C8 (as stated): when the invoked class or function raises, the build    *)
(* call ends in a wrapping error that names it and carries the original.   *)
(* Refuted: `except Exception` lets a SystemExit pass unwrapped.           *)
C8_FailureWrapped ==
    (op \in BuildOps /\ Len(calls) = 1 /\ OriginalError # NoExc) =>
        /\ raised.type = "Exception"
        /\ calls[1].entity \in raised.names
        /\ raised.cause = OriginalError.type

(* C8 (amended): when the invoked class or function raises, the build call *)
(* never returns normally: an error that is an Exception is replaced by a  *)
(* wrapping Exception that names the class or function and carries the     *)
(* original; an error that is not an Exception (SystemExit,                 *)
(* KeyboardInterrupt) leaves the build call as it is.                      *)
C8_FailureNeverSwallowed ==
    (op \in BuildOps /\ Len(calls) = 1 /\ OriginalError # NoExc) =>
        /\ raised # NoExc
        /\ ret = NoValue
        /\ IF OriginalError.type \in ExceptionClasses
           THEN /\ raised.type = "Exception"
                /\ calls[1].entity \in raised.names
                /\ raised.cause = OriginalError.type
           ELSE raised = OriginalError

\* C8 witness: the constructor raised ValueError and the build ended in the
\* Exception that names the class.
C8_Witness ==
    /\ op \in BuildOps
    /\ Len(calls) = 1
    /\ OriginalError.type = "ValueError"
    /\ raised.type = "Exception"
    /\ raised.names = {"ClsB"}
    /\ raised.cause = "ValueError"

----------------------------------------------------------------------------
(* C9: a build call, on its successful path and on each error path, leaves *)
(* every registry's class_map, func_map, allow_types and build_func as     *)
(* they were.                                                              *)
C9_BuildReadsOnly ==
    [][op' \in BuildOps =>
          /\ DOMAIN registries' = DOMAIN registries
          /\ \A r \in DOMAIN registries :
                 /\ registries'[r].class_map = registries[r].class_map
                 /\ registries'[r].func_map = registries[r].func_map
                 /\ registries'[r].allow_types = registries[r].allow_types
                 /\ registries'[r].build_func = registries[r].build_func]_vars

\* C9 witness: a build that resolved its type string in the registry and
\* returned, with the entry still registered.
C9_Witness ==
    /\ BuildResolves
    /\ isstr(CallConfig["type"])
    /\ raised = NoExc
    /\ contains(registries[args.registry], CallConfig["type"])

----------------------------------------------------------------------------
(* C10 (as stated): get(k) is the class under k if class_map holds k,      *)
(* otherwise the function under k if func_map holds k, otherwise None.     *)
(* Refuted by the code: get joins the two lookups with `or`, so a class    *)
(* that tests false is passed over.                                        *)
C10_LookupPrecedence ==
    \A r \in DOMAIN registries, k \in Strings :
        get(registries[r], k) =
            IF k \in DOMAIN registries[r].class_map THEN registries[r].class_map[k]
            ELSE IF k \in DOMAIN registries[r].func_map THEN registries[r].func_map[k]
            ELSE None

----------------------------------------------------------------------------
(* C11 (as stated): in every reachable state and for every key k,          *)
(* contains(k) is true exactly when k is in class_map or in func_map, and  *)
(* exactly when get(k) returns an entity. Refuted by the code: the first   *)
(* equivalence holds, the second does not, because get passes over a       *)
(* registered class that tests false (C10) and returns None for its key.   *)
C11_ContainsIffGetReturns ==
    \A r \in DOMAIN registries, k \in Strings :
        /\ contains(registries[r], k) <=>
               (k \in DOMAIN registries[r].class_map \/ k \in DOMAIN registries[r].func_map)
        /\ contains(registries[r], k) <=> (get(registries[r], k) # None)

----------------------------------------------------------------------------
(* C12: fetch_parameters(k) raises ValueError exactly when k is a key of   *)
(* neither map; when k is in class_map it returns the class-variant        *)
(* template of the class under k, also when func_map holds k too; when k   *)
(* is in func_map only it returns the function-variant template of that    *)
(* function; and it leaves the registry as it was.                         *)
C12_FetchParametersDispatch ==
    [][op' = "fetch_parameters" =>
          LET self == registries[args'.self]
              k == args'.req_type
          IN /\ registries' = registries
             /\ raised' \in {NoExc, Exc("ValueError", {k})}
             /\ (raised' # NoExc) <=>
                    (k \notin DOMAIN self.class_map /\ k \notin DOMAIN self.func_map)
             /\ k \in DOMAIN self.class_map =>
                    ret' = Template(get_class_arguments(self.class_map[k]))
             /\ (k \notin DOMAIN self.class_map /\ k \in DOMAIN self.func_map) =>
                    ret' = Template(get_function_arguments(self.func_map[k]))]_vars

\* C12 witness: fetch_parameters of a key that both maps hold returned the
\* template of the class.
C12_Witness ==
    /\ op = "fetch_parameters"
    /\ args.req_type \in DOMAIN registries[args.self].class_map
    /\ args.req_type \in DOMAIN registries[args.self].func_map
    /\ raised = NoExc
    /\ ret = Template(get_class_arguments(registries[args.self].class_map[args.req_type]))
    /\ ret # Template(get_function_arguments(registries[args.self].func_map[args.req_type]))

----------------------------------------------------------------------------
\* The positional-or-keyword parameters that the constructor defined in the
\* body of the class declares, self apart.
OwnDeclared(level) ==
    {value \in {OwnInit(level)[i] : i \in 1..Len(OwnInit(level))} :
        value.name # "self" /\ value.kind = "POSITIONAL_OR_KEYWORD"}

\* The levels of the resolution order of cls whose own constructor declares
\* key, and the first (most-derived) of them.
DeclaringLevels(cls, key) ==
    {i \in 1..Len(Mro(cls)) : \E value \in OwnDeclared(Mro(cls)[i]) : value.name = key}
FirstDeclaring(cls, key) ==
    Mro(cls)[CHOOSE i \in DeclaringLevels(cls, key) :
                 \A j \in DeclaringLevels(cls, key) : i <= j]

\* The entry computed at a level for a parameter its own constructor
\* declares, from that level's own documentation.
OwnEntry(level, key) ==
    ParamInfo(TypeName(level),
              CHOOSE value \in OwnDeclared(level) : value.name = key,
              _get_doc_params(DocParsed(level)))

(* C13 (as stated): the template of get_class_arguments(cls) holds one     *)
(* entry for each parameter that the own constructor of some level of the  *)
(* resolution order declares, and each entry carries the default and the   *)
(* description computed at the most-derived level whose own constructor    *)
(* declares the parameter. Refuted by the code for a subclass that defines *)
(* no constructor: its level reads the inherited constructor with the      *)
(* subclass's name and documentation, and the base's level is then passed  *)
(* over, so the description is not the one computed at the base.           *)
C13_MostDerivedWins ==
    op = "get_class_arguments" =>
        LET cls == args.entity
            template == ret.attrs
        IN /\ \A i, j \in 1..Len(template) : template[i].key = template[j].key => i = j
           /\ TemplateKeys(template) =
                  UNION {{value.name : value \in OwnDeclared(Mro(cls)[i])} : i \in 1..Len(Mro(cls))}
           /\ \A i \in 1..Len(template) :
                  template[i] = OwnEntry(FirstDeclaring(cls, template[i].key), template[i].key)

----------------------------------------------------------------------------
\* The entity fetch_parameters describes for a key the registry holds.
FetchedEntity(self, k) ==
    IF k \in DOMAIN self.class_map THEN self.class_map[k] ELSE self.func_map[k]

\* The signature of the entity: of its constructor if it is a class.
DeclaredSignature(x) == IF isclass(x) THEN InitSignature(x) ELSE Signature(x)

(* C14 (as stated): for every registered entity, class or function, whose  *)
(* signature declares a variadic-keyword or a variadic-positional          *)
(* parameter, the template fetch_parameters returns holds an entry for     *)
(* that parameter, with an empty mapping respectively an empty sequence as *)
(* default and an empty description. Refuted by the code for classes: the  *)
(* class variant skips every parameter that is not positional-or-keyword.  *)
C14_VariadicNeverSkipped ==
    (op = "fetch_parameters" /\ raised = NoExc) =>
        LET x == FetchedEntity(registries[args.self], args.req_type)
            signature == DeclaredSignature(x)
        IN \A i \in 1..Len(signature) :
               /\ signature[i].kind = "VAR_KEYWORD" =>
                      /\ signature[i].name \in TemplateKeys(ret.attrs)
                      /\ TemplateEntry(ret.attrs, signature[i].name) =
                             ValueComment(signature[i].name, "{}", <<>>)
               /\ signature[i].kind = "VAR_POSITIONAL" =>
                      /\ signature[i].name \in TemplateKeys(ret.attrs)
                      /\ TemplateEntry(ret.attrs, signature[i].name) =
                             ValueComment(signature[i].name, "[]", <<>>)

----------------------------------------------------------------------------
(* C15 (as stated): register_by_hand of an anonymous (lambda) function     *)
(* raises ValueError and stores nothing when it is given no name; given a  *)
(* name, and with "function" in allow_types, it raises nothing and         *)
(* get(name) returns the function afterwards, as long as no class is       *)
(* registered under that name. Refuted by the code for the empty string as *)
(* name: the test for a missing name is `name is None`, the key is         *)
(* `name or instance.__name__`, so the lambda is stored under "<lambda>".  *)
C15_LambdaNeedsName ==
    [][(op' = "register_by_hand" /\ args'.entity = "Lam") =>
          LET self == registries'[args'.self]
              name == args'.name
          IN /\ name = None =>
                    /\ raised'.type = "ValueError"
                    /\ registries' = registries
             /\ (name # None /\ "function" \in self.allow_types) =>
                    /\ raised' = NoExc
                    /\ name \notin DOMAIN self.class_map =>
                           get(self, name) = "Lam"]_vars

----------------------------------------------------------------------------
\* The most recent build call passed the three argument checks.
BuildValidated ==
    /\ op \in BuildOps
    /\ ConfigIsMapping
    /\ "type" \in DOMAIN CallConfig
    /\ RegistryIsRegistry

(* C16: when the config's "type" is a class or a function, a build call    *)
(* that passed the argument checks invokes that very value, once, with the *)
(* merged arguments, and raises no KeyError, whatever the registry holds   *)
(* and whatever its allow_types are; and the call ends in the TypeError of *)
(* the last step exactly when "type" is neither a string, a class nor a    *)
(* function, in which case nothing was invoked.                            *)
C16_PreResolvedBypass ==
    BuildValidated =>
        LET t == CallConfig["type"]
        IN /\ t \in Entities =>
                  /\ Len(calls) = 1
                  /\ calls[1].entity = t
                  /\ calls[1].kwargs = Update([k \in (DOMAIN CallConfig) \ {"type"} |->
                                                   CopyAddr(CallConfig[k])], args.kwargs)
                  /\ raised.type \notin {"KeyError", "TypeError"}
           /\ (raised.type = "TypeError") <=> (~isstr(t) /\ t \notin Entities)
           /\ raised.type = "TypeError" => calls = <<>>

\* C16 witness: a build with a function as "type" returned that function's
\* result although the registry holds nothing and allows no kind.
C16_Witness ==
    /\ BuildValidated
    /\ isfunction(CallConfig["type"])
    /\ registries[args.registry].allow_types = {}
    /\ registries[args.registry].class_map = EmptyMap
    /\ registries[args.registry].func_map = EmptyMap
    /\ raised = NoExc
    /\ ret.kind = "result"
    /\ ret.of = CallConfig["type"]

----------------------------------------------------------------------------
(* C17 (as stated): in every reachable state the listing of a registry     *)
(* holds one line per entry of class_map and one per entry of func_map, in *)
(* lexicographic order of the keys; each entry of class_map is shown as    *)
(* its class and each entry of func_map by its module and function name,   *)
(* also when both maps hold the same key. Refuted by the code for such a   *)
(* key: both of its lines show the class, the function is not listed.      *)
C17_ListingOneLinePerEntry ==
    \A r \in DOMAIN registries :
        LET self == registries[r]
            listing == _list(self)
            Position(key) == CHOOSE i \in 1..Len(KeyOrder) : KeyOrder[i] = key
        IN /\ Len(listing) = Cardinality(DOMAIN self.class_map)
                                + Cardinality(DOMAIN self.func_map)
           /\ \A i, j \in 1..Len(listing) :
                  i <= j => Position(listing[i].key) <= Position(listing[j].key)
           /\ \A k \in DOMAIN self.class_map :
                  Cardinality({i \in 1..Len(listing) :
                                   listing[i] = ClassLine(k, self.class_map[k])}) = 1
           /\ \A k \in DOMAIN self.func_map :
                  Cardinality({i \in 1..Len(listing) :
                                   listing[i] = FunctionLine(k, self.func_map[k])}) = 1

----------------------------------------------------------------------------
\* What a caller observes of the Registry object r among regs: get,
\* contains and fetch_parameters for every key, and build for every value
\* of "type".
Observed(regs, r) ==
    [get |-> [k \in Strings |-> get(regs[r], k)],
     contains |-> [k \in Strings |-> contains(regs[r], k)],
     fetch_parameters |->
         [k \in Strings |->
             LET out == fetch_parameters(regs[r], k)
             IN [raised |-> out.raised, ret |-> out.ret]],
     build |->
         [t \in TypeValues |->
             LET out == build(r, "D0", EmptyMap, CallerHeap([x \in {"type"} |-> t]), regs)
             IN [raised |-> out.raised, ret |-> out.ret, calls |-> out.calls]]]

(* C18: registries are independent. A registration on one registry leaves  *)
(* what get, contains, fetch_parameters and build return on every other    *)
(* registry as it was; REGISTRY_LIST only grows, by the one object each    *)
(* construction appends, and a step that changes it changes nothing that   *)
(* get, contains, fetch_parameters or build return on the registries that  *)
(* exist.                                                                  *)
C18_RegistriesIndependent ==
    [][/\ op' = "Registry" =>
              /\ REGISTRY_LIST' = Append(REGISTRY_LIST, ret'.of)
              /\ \A i \in 1..Len(REGISTRY_LIST) : REGISTRY_LIST[i] # ret'.of
       /\ op' # "Registry" => REGISTRY_LIST' = REGISTRY_LIST
       /\ \A r \in DOMAIN registries :
              (op' \notin RegOps \/ args'.self # r) =>
                  /\ r \in DOMAIN registries'
                  /\ Observed(registries', r) = Observed(registries, r)]_vars

\* C18 witness: two registries exist; a function was just registered under
\* a key on one of them, and the other holds a class under the same key
\* and no function.
C18_Witness ==
    /\ op \in RegOps
    /\ raised = NoExc
    /\ Len(REGISTRY_LIST) = 2
    /\ isfunction(args.entity)
    /\ get(CallRegistry, CallKey) = args.entity
    /\ \E r \in DOMAIN registries :
           /\ r # args.self
           /\ get(registries[r], CallKey) \in Classes
           /\ registries[r].func_map = EmptyMap

----------------------------------------------------------------------------
(* C19: a registration call that ends in an error (the value is of the     *)
(* wrong kind, its kind is not in allow_types, it is a lambda given no     *)
(* name, or it has no name at all) leaves class_map and func_map of every  *)
(* registry exactly as they were.                                          *)
C19_FailedRegistrationStoresNothing ==
    [][(op' \in RegOps /\ raised' # NoExc) =>
          /\ DOMAIN registries' = DOMAIN registries
          /\ \A r \in DOMAIN registries :
                 /\ registries'[r].class_map = registries[r].class_map
                 /\ registries'[r].func_map = registries[r].func_map]_vars

\* C19 witness: a registry that allows classes only and holds one was
\* handed a function; the call ended in a TypeError.
C19_Witness ==
    /\ op \in RegOps
    /\ raised.type = "TypeError"
    /\ isfunction(args.entity)
    /\ CallRegistry.allow_types = {"class"}
    /\ CallRegistry.class_map # EmptyMap
    /\ CallRegistry.func_map = EmptyMap

----------------------------------------------------------------------------
\* Every value of class_map is a class, every value of func_map a function.
KindInvariant ==
    \A r \in DOMAIN registries :
        /\ \A k \in DOMAIN registries[r].class_map : isclass(registries[r].class_map[k])
        /\ \A k \in DOMAIN registries[r].func_map : isfunction(registries[r].func_map[k])

\* The most recent build call passed the argument checks with a string as
\* "type" that get resolves.
BuildResolvesString ==
    /\ BuildValidated
    /\ isstr(CallConfig["type"])
    /\ get(registries[args.registry], CallConfig["type"]) # None

(* C20: after every step, every value of class_map is a class and every    *)
(* value of func_map is a function; no step removes a registry or a key of *)
(* either map; and a build whose "type" is a string that the registry      *)
(* resolves invokes the entry (the class or the function branch) and never *)
(* ends in the TypeError of the last step.                                 *)
C20_KindInvariant ==
    [][/\ KindInvariant'
       /\ \A r \in DOMAIN registries :
              /\ r \in DOMAIN registries'
              /\ DOMAIN registries[r].class_map \subseteq DOMAIN registries'[r].class_map
              /\ DOMAIN registries[r].func_map \subseteq DOMAIN registries'[r].func_map
       /\ BuildResolvesString' =>
              /\ Len(calls') = 1
              /\ calls'[1].entity \in Entities
              /\ calls'[1].entity = get(registries[args'.registry], CallConfig'["type"])
              /\ raised'.type # "TypeError"]_vars

\* C20 witness: a build resolved its type string to a registered function
\* and invoked it; both maps of the registry hold an entry.
C20_Witness ==
    /\ BuildResolvesString
    /\ Len(calls) = 1
    /\ isfunction(calls[1].entity)
    /\ registries[args.registry].class_map # EmptyMap
    /\ registries[args.registry].func_map # EmptyMap
    /\ KindInvariant

====
